---- MODULE Spec2Model ----
(***************************************************************************)
(* RoyalCrash backend (src/royalcrash_backend/main.py): the round engine   *)
(* game_loop, the broadcaster and the per-connection websocket_endpoint,   *)
(* as asyncio tasks that interleave only at their await points.            *)
(*                                                                         *)
(* Numbers.  Multipliers, crash points and auto_cashout thresholds are     *)
(* floats rounded to two decimals in the code; here they are integers in   *)
(* hundredths (1.0 is 100).  Amounts are whole numbers.  Time is counted   *)
(* in tenths of a second, the tick of the loop.                            *)
(***************************************************************************)
EXTENDS Integers, Sequences, FiniteSets, TLC

(***************************************************************************)
(* Bounds of the model.                                                    *)
(***************************************************************************)
MaxRound == 2       \* rounds started by the engine in the full model
MaxJump == 4        \* most tenths of a second between two ticks
MaxElapsed == 7     \* longest Running phase observed, in tenths of a second
MaxHistRound == 22  \* rounds started in the engine-only model (history ring)
MaxEvents == 3      \* connections accepted, messages received and sends failed in a run

Conns == {"c1", "c2"}                \* websocket objects
Tasks == {"loop"} \cup Conns         \* the asyncio tasks

(***************************************************************************)
(* Program constants.                                                      *)
(***************************************************************************)
HistoryCap == 20       \* game.history[:20]
RecentWindow == 7      \* game.history[:7]
LimbBase == 65536      \* val = int(h[:8], 16) is kept as two 16-bit halves
HouseEdgeMod == 33     \* val % 33 == 0
CrashCap == 1000000    \* min(result, 10000.0), in hundredths
ClampHi == 6           \* 0xFFFFFFFF / 10000 = 429496.7 = 6 * 65536 + 36280.7
ClampLo == 36280
GrowthNum == 24        \* 1.0024 = 1 + 24 / 10000
GrowthDen == 10000
GrowthFrac == 6        \* pow(1.0024, n) is kept to 6 * 4 = 24 decimals

None == <<>>           \* Python None; a present value x is <<x>>

(***************************************************************************)
(* generate_crash_point.  The HMAC digest is an input: val, its first 32   *)
(* bits, written <<high 16 bits, low 16 bits>>.                            *)
(***************************************************************************)
ValMax == <<65535, 65535>>     \* 0xFFFFFFFF

ValMod33(val) == ((val[1] % HouseEdgeMod) * (LimbBase % HouseEdgeMod)
                   + (val[2] % HouseEdgeMod)) % HouseEdgeMod

\* 0xFFFFFFFF - val, as three limbs of 16 bits (no borrow: every bit of
\* 0xFFFFFFFF is set)
ValDenominator(val) == <<0, 65535 - val[1], 65535 - val[2]>>

BigGeq(a, b) ==
    \/ a[1] > b[1]
    \/ a[1] = b[1] /\ a[2] > b[2]
    \/ a[1] = b[1] /\ a[2] = b[2] /\ a[3] >= b[3]

BigSub(a, b) ==
    LET l3 == a[3] - b[3]
        b3 == IF l3 < 0 THEN 1 ELSE 0
        l2 == a[2] - b[2] - b3
        b2 == IF l2 < 0 THEN 1 ELSE 0
    IN  <<a[1] - b[1] - b2, l2 + b2 * LimbBase, l3 + b3 * LimbBase>>

BigMul10Add(a, dgt) ==
    LET l3 == a[3] * 10 + dgt
        l2 == a[2] * 10 + l3 \div LimbBase
        l1 == a[1] * 10 + l2 \div LimbBase
    IN  <<l1, l2 % LimbBase, l3 % LimbBase>>

RECURSIVE DivDigit(_, _, _)
DivDigit(r, d, k) == IF BigGeq(r, d) THEN DivDigit(BigSub(r, d), d, k + 1)
                                     ELSE <<k, r>>

\* decimal digits of 0xFFFFFFFF = 4294967295 and three decimals
NumeratorDigits == <<4, 2, 9, 4, 9, 6, 7, 2, 9, 5, 0, 0, 0>>

\* floor(1000 * 0xFFFFFFFF / d) by long division
RECURSIVE LongDiv(_, _, _, _)
LongDiv(i, r, q, d) ==
    IF i > Len(NumeratorDigits) THEN q
    ELSE LET s == DivDigit(BigMul10Add(r, NumeratorDigits[i]), d, 0)
         IN  LongDiv(i + 1, s[2], q * 10 + s[1], d)

\* 100 / (1 - val / 0xFFFFFFFF) divides by zero
generate_crash_point_raises(val) == ValMod33(val) # 0 /\ val = ValMax

\* round() of a double.  The exact quotient 0xFFFFFFFF / (0xFFFFFFFF - val)
\* falls on a tie (a 5 in the third decimal, nothing after it) for a few
\* digests only, and there the double computed at line 55 decides: for the
\* digests below it is under the tie, or is the tie itself with an even
\* hundredth before it, and round() gives the lower hundredth (1.275 -> 1.27,
\* 8192.125 -> 8192.12); for the other ties, and away from ties, rounding the
\* exact quotient half-up gives what the code gives.
TiesRoundedDown ==
    { <<14135, 14135>>, <<14535, 14535>>, <<34695, 34695>>, <<55335, 55335>>,
      <<62135, 62135>>, <<63495, 63495>>, <<65336, 199>>, <<65496, 39>>,
      <<65522, 43703>>, <<65528, 7>> }

\* round(min((100 / (1 - val / 0xFFFFFFFF)) / 100, 10000.0), 2), in hundredths
generate_crash_point(val) ==
    IF ValMod33(val) = 0 THEN 100
    ELSE LET d == ValDenominator(val)
         IN  IF d[2] < ClampHi \/ (d[2] = ClampHi /\ d[3] <= ClampLo)
             THEN CrashCap
             ELSE IF val \in TiesRoundedDown
                  THEN LongDiv(1, <<0, 0, 0>>, 0, d) \div 10
                  ELSE (LongDiv(1, <<0, 0, 0>>, 0, d) + 5) \div 10

(***************************************************************************)
(* round(pow(1.0024, elapsed * 10), 2) for elapsed * 10 = n, in hundredths *)
(***************************************************************************)
\* A number is a sequence of limbs of four decimal digits, the least
\* significant first; the first GrowthFrac limbs are its decimals.
GrowthOne == [i \in 1..(GrowthFrac + 1) |-> IF i = GrowthFrac + 1 THEN 1 ELSE 0]

\* the base of pow, 1.0024
GrowthRate ==
    [i \in 1..(GrowthFrac + 1) |->
        IF i = GrowthFrac + 1 THEN 1 ELSE IF i = GrowthFrac THEN GrowthNum ELSE 0]

GrowthLimb(x, i) == IF i >= 1 /\ i <= Len(x) THEN x[i] ELSE 0

\* the sum of a[i'] * b[k + 1 - i'] over i' >= i: what a * b has at limb k
\* before carrying
RECURSIVE GrowthDot(_, _, _, _)
GrowthDot(a, b, k, i) ==
    IF i > Len(a) \/ i > k THEN 0
    ELSE a[i] * GrowthLimb(b, k + 1 - i) + GrowthDot(a, b, k, i + 1)

\* the limbs of a * b from limb k on, with the carry so far
RECURSIVE GrowthProd(_, _, _, _)
GrowthProd(a, b, k, carry) ==
    IF k > Len(a) + Len(b) THEN <<>>
    ELSE LET p == GrowthDot(a, b, k, 1) + carry
         IN  <<p % GrowthDen>> \o GrowthProd(a, b, k + 1, p \div GrowthDen)

\* leading zero limbs removed
RECURSIVE GrowthTrim(_)
GrowthTrim(x) ==
    IF Len(x) > GrowthFrac + 1 /\ x[Len(x)] = 0
    THEN GrowthTrim(SubSeq(x, 1, Len(x) - 1))
    ELSE x

\* a * b to 24 decimals, the rest cut off
GrowthTimes(a, b) ==
    LET p == GrowthProd(a, b, 1, 0)
    IN  GrowthTrim(SubSeq(p, GrowthFrac + 1, Len(p)))

\* pow(1.0024, n) by repeated squaring.  What the products cut off is far
\* less than the distance of pow(1.0024, n) from a rounding boundary of
\* line 112, and so is the error of the double pow() returns, for every n
\* whose multiplier in hundredths is below 2^31 (n <= 7042).
RECURSIVE GrowthFixed(_)
GrowthFixed(n) ==
    IF n = 0 THEN GrowthOne
    ELSE LET h == GrowthFixed(n \div 2)
             sq == GrowthTimes(h, h)
         IN  IF n % 2 = 0 THEN sq ELSE GrowthTimes(sq, GrowthRate)

\* the integer part of x, from limb i up
RECURSIVE GrowthWhole(_, _)
GrowthWhole(x, i) ==
    IF i > Len(x) THEN 0 ELSE x[i] + GrowthDen * GrowthWhole(x, i + 1)

\* round(x, 2), in hundredths
GrowthRound(x) ==
    GrowthWhole(x, GrowthFrac + 1) * 100 + x[GrowthFrac] \div 100
        + (IF x[GrowthFrac] % 100 >= 50 THEN 1 ELSE 0)

\* y <= w, for a whole number w below GrowthDen
GrowthAtMost(y, w) ==
    /\ \A i \in (GrowthFrac + 2)..Len(y) : y[i] = 0
    /\ \/ y[GrowthFrac + 1] < w
       \/ y[GrowthFrac + 1] = w /\ \A i \in 1..GrowthFrac : y[i] = 0

\* round(1 / x, 2) for x >= 1, in hundredths: the number of h in 1..100
\* with h - 1/2 <= 100 / x, that is (2h - 1) * x <= 200
GrowthInverse(x) ==
    Cardinality({h \in 1..100 : GrowthAtMost(GrowthProd(x, <<2 * h - 1>>, 1, 0), 200)})

\* round(pow(1.0024, n), 2) for an exponent of either sign
GrowthPow(n) ==
    IF n >= 0 THEN GrowthRound(GrowthFixed(n)) ELSE GrowthInverse(GrowthFixed(-n))

\* the exponent negated
GrowthDecay(n) == GrowthPow(-n)

Growth(n) == GrowthPow(n)

\* line 112 at every reading of the clock the model has, computed once
Multipliers == [n \in (-MaxElapsed)..MaxElapsed |-> Growth(n)]

(***************************************************************************)
(* Inputs of the model.                                                    *)
(***************************************************************************)
\* digests drawn for a round: crash points 1.0 (twice, val % 33 = 0 and a
\* small val) and 1.02, and the digest ffffffff
CrashVals == {<<0, 0>>, <<0, 1>>, <<1285, 1285>>, ValMax}

\* a JSON value of a client message: kind "num" (the number v), "str" (a
\* non-empty string that is not a number), "empty" (the string ""), "null",
\* "absent" (key missing)
J(k, v) == [k |-> k, v |-> v]
Absent == J("absent", 0)

\* user_id values: two participants and a JSON list (unhashable in Python)
Unhashable == "[]"
UserIds == {"u1", "u2", Unhashable}

Payload(u, a, ac, n) == [user_id |-> u, amount |-> a, auto_cashout |-> ac, username |-> n]

\* the place_bet messages clients send (auto_cashout in hundredths)
PlaceBetPayloads ==
    { Payload("u1", J("num", 10), Absent, "A"),
      Payload("u1", J("num", 20), J("num", 101), "B"),
      Payload("u2", J("num", 10), J("num", 102), "A"),
      Payload("u1", J("num", 10), J("num", 0), "A"),
      Payload("u1", J("num", 10), J("empty", 0), "A"),
      Payload("u2", J("empty", 0), Absent, "A"),
      Payload("u1", J("num", 0), Absent, "A"),
      Payload("u2", J("num", -5), Absent, "A"),
      Payload("u2", Absent, Absent, "A"),
      Payload("u1", J("str", 0), Absent, "A"),
      Payload("u1", J("null", 0), Absent, "A"),
      Payload("u1", J("num", 10), J("str", 0), "A"),
      Payload(Unhashable, J("num", 10), Absent, "A") }

(***************************************************************************)
(* State.                                                                  *)
(***************************************************************************)
VARIABLES
    phase,        \* game.phase
    multiplier,   \* game.multiplier
    crash_point,  \* game.crash_point
    round_id,     \* game.round_id
    elapsed,      \* time.time() - game.start_time at the last reading, tenths of a second
    bets,         \* game.bets: dict in insertion order, a sequence of bets with distinct user_id
    history,      \* game.history
    connections,  \* game.connections
    gpc,          \* where game_loop is suspended
    hpc,          \* where each websocket_endpoint is suspended
    bc,           \* the broadcast call each task is inside
    computed,     \* the multiplier computed by the last tick, line 112 (observation)
    handled,      \* the client message handled last and what came of it (observation)
    cashLog,      \* the cashouts of the current round, in order (observation)
    crashLog,     \* crashLog[r]: the crash point computed for round r (observation)
    used,         \* what the clients and the network have done so far, counted
    seen          \* seen.last[c]: the engine event delivered last to connection c, when seen.on (observation)

vars == <<phase, multiplier, crash_point, round_id, elapsed, bets, history,
          connections, gpc, hpc, bc, computed, handled, cashLog, crashLog, used, seen>>

gameVars == <<phase, multiplier, crash_point, round_id, elapsed, bets, history>>

(***************************************************************************)
(* dict operations on game.bets                                            *)
(***************************************************************************)
Keys(d) == {d[i].user_id : i \in DOMAIN d}
Has(d, k) == k \in Keys(d)
Get(d, k) == d[CHOOSE i \in DOMAIN d : d[i].user_id = k]
\* line 207 on a ledger that keeps every bet it is given
DictSetStacking(d, k, v) == Append(d, v)

DictSet(d, k, v) ==
    IF Has(d, k) THEN [i \in DOMAIN d |-> IF d[i].user_id = k THEN v ELSE d[i]]
                 ELSE Append(d, v)

(***************************************************************************)
(* float(x) and truthiness of a JSON value                                 *)
(***************************************************************************)
FloatRaises(j) == j.k \in {"str", "empty", "null"}
Truthy(j) == j.k = "str" \/ (j.k = "num" /\ j.v # 0)
\* truthiness of a stored Optional[float]
TruthyOpt(o) == o # None /\ o[1] # 0

(***************************************************************************)
(* Events and broadcast                                                    *)
(***************************************************************************)
Msg(t, r, m, it, h) == [type |-> t, round_id |-> r, multiplier |-> m, items |-> it, history |-> h]
NoMsg == Msg("none", 0, 0, <<>>, <<>>)

NoBc == [msg |-> NoMsg, start |-> {}, todo |-> {}, dead |-> {}, got |-> [c \in Conns |-> 0]]

\* broadcast(message) up to its first send: nothing to do with no connection
broadcast(m, conns) ==
    IF conns = {} THEN NoBc
    ELSE [msg |-> m, start |-> conns, todo |-> conns, dead |-> {}, got |-> [c \in Conns |-> 0]]

SubSeqTop(s, n) == IF Len(s) <= n THEN s ELSE SubSeq(s, 1, n)

\* what a client keeps of an event of the engine: its round, type and
\* multiplier; the deliveries are recorded only where a specification asks
Heard(m) == [round_id |-> m.round_id, type |-> m.type, multiplier |-> m.multiplier]
NotRecording == [on |-> FALSE, last |-> [c \in Conns |-> Heard(NoMsg)]]
Recording == [on |-> TRUE, last |-> [c \in Conns |-> Heard(NoMsg)]]
Record(s, c, m) == IF s.on THEN [s EXCEPT !.last[c] = Heard(m)] ELSE s

Handled(type, outcome) == [type |-> type, outcome |-> outcome]

Init ==
    /\ phase = "waiting"
    /\ multiplier = 100
    /\ crash_point = 100
    /\ round_id = 0
    /\ elapsed = 0
    /\ bets = <<>>
    /\ history = <<>>
    /\ connections = {}
    /\ gpc = "top"
    /\ hpc = [c \in Conns |-> "closed"]
    /\ bc = [t \in Tasks |-> NoBc]
    /\ computed = 100
    /\ handled = Handled("none", "none")
    /\ cashLog = <<>>
    /\ crashLog = <<>>
    /\ used = 0
    /\ seen = NotRecording

(***************************************************************************)
(* game_loop                                                               *)
(***************************************************************************)
LoopBcPcs == {"bc_betting_start", "bc_round_start", "bc_tick", "bc_crashed"}

HistoryEntry(r, cp) == [round_id |-> r, crash_point |-> cp]

\* line 144 reading a key that is never set
ResultNoCashoutAt(b) == [user_id |-> b.user_id, username |-> b.username, amount |-> b.amount,
                         cashed_out |-> b.cashed_out, cashout_at |-> None]

Result(b) == [user_id |-> b.user_id, username |-> b.username, amount |-> b.amount,
              cashed_out |-> b.cashed_out, cashout_at |-> b.cashout_at]

\* lines 136-145
Results(d) == [i \in DOMAIN d |-> Result(d[i])]

\* lines 148-153 with append for insert(0, ...)
InsertAtEnd(h, r, cp) == SubSeqTop(h \o <<HistoryEntry(r, cp)>>, HistoryCap)

\* lines 148-153
Insert(h, r, cp) == SubSeqTop(<<HistoryEntry(r, cp)>> \o h, HistoryCap)

\* lines 132-155 with the phase set back to "waiting" at line 132
CrashToWaiting(conns) ==
    LET h == Insert(history, round_id, crash_point)
        m == Msg("crashed", round_id, crash_point, Results(bets), SubSeqTop(h, RecentWindow))
    IN  /\ phase' = "waiting"
        /\ multiplier' = crash_point
        /\ history' = h
        /\ bc' = [bc EXCEPT !["loop"] = broadcast(m, conns)]
        /\ gpc' = IF conns = {} THEN "sleep_crashed" ELSE "bc_crashed"

\* lines 132-155 with the multiplier of the last tick at line 157
CrashStaleMultiplier(conns) ==
    LET h == Insert(history, round_id, crash_point)
        m == Msg("crashed", round_id, multiplier, Results(bets), SubSeqTop(h, RecentWindow))
    IN  /\ phase' = "crashed"
        /\ multiplier' = crash_point
        /\ history' = h
        /\ bc' = [bc EXCEPT !["loop"] = broadcast(m, conns)]
        /\ gpc' = IF conns = {} THEN "sleep_crashed" ELSE "bc_crashed"

\* lines 132-155: the crash, up to the first send of the crashed event;
\* conns is game.connections at that moment
Crash(conns) ==
    LET h == Insert(history, round_id, crash_point)
        m == Msg("crashed", round_id, crash_point, Results(bets), SubSeqTop(h, RecentWindow))
    IN  /\ phase' = "crashed"
        /\ multiplier' = crash_point
        /\ history' = h
        /\ bc' = [bc EXCEPT !["loop"] = broadcast(m, conns)]
        /\ gpc' = IF conns = {} THEN "sleep_crashed" ELSE "bc_crashed"

\* lines 79-90: Betting entry, after start-up or after the cool-down
BettingEntryUpTo(val, maxRound) ==
    /\ gpc \in {"top", "sleep_crashed"}
    /\ round_id < maxRound
    /\ phase' = "betting"
    /\ round_id' = round_id + 1
    /\ bets' = <<>>
    /\ cashLog' = <<>>
    /\ IF generate_crash_point_raises(val)
       THEN /\ crash_point' = crash_point
            /\ gpc' = "dead"
            /\ bc' = bc
       ELSE /\ crash_point' = generate_crash_point(val)
            /\ bc' = [bc EXCEPT !["loop"] =
                       broadcast(Msg("betting_start", round_id + 1, 0, <<>>, <<>>), connections)]
            /\ gpc' = IF connections = {} THEN "sleep_betting" ELSE "bc_betting_start"
    /\ crashLog' = Append(crashLog, crash_point')
    /\ UNCHANGED <<multiplier, elapsed, history, connections, hpc, computed, handled, used>>
    /\ UNCHANGED seen

BettingEntry(val) == BettingEntryUpTo(val, MaxRound)

\* lines 100-103 listing the first bet only
ListedFirst(d) == [i \in DOMAIN d \cap {1} |-> [user_id |-> d[i].user_id, amount |-> d[i].amount,
                                              username |-> d[i].username]]

\* lines 100-103
Listed(d) == [i \in DOMAIN d |-> [user_id |-> d[i].user_id, amount |-> d[i].amount,
                                  username |-> d[i].username]]

\* lines 93-109: Running entry, after the betting window
RunningEntry ==
    /\ gpc = "sleep_betting"
    /\ elapsed' = 0
    /\ computed' = 100
    /\ IF connections = {} /\ ~(100 < crash_point)
       THEN Crash({})
       ELSE /\ phase' = "running"
            /\ multiplier' = 100
            /\ bc' = [bc EXCEPT !["loop"] =
                       broadcast(Msg("round_start", round_id, 0, Listed(bets), <<>>), connections)]
            /\ gpc' = IF connections = {} THEN "sleep_tick" ELSE "bc_round_start"
            /\ history' = history
    /\ UNCHANGED <<crash_point, round_id, bets, connections, hpc, handled, cashLog,
                   crashLog, used>>
    /\ UNCHANGED seen

\* line 120 without "not bet['cashed_out']"
QualifiesAgain(b, m) == TruthyOpt(b.auto_cashout) /\ m >= b.auto_cashout[1]

\* line 120 with > for >=
QualifiesStrict(b, m) == ~b.cashed_out /\ TruthyOpt(b.auto_cashout) /\ m > b.auto_cashout[1]

\* line 120
Qualifies(b, m) == ~b.cashed_out /\ TruthyOpt(b.auto_cashout) /\ m >= b.auto_cashout[1]

\* lines 119-122
AutoCashout(d, m) ==
    [i \in DOMAIN d |-> IF Qualifies(d[i], m)
                        THEN [d[i] EXCEPT !.cashed_out = TRUE, !.cashout_at = <<m>>]
                        ELSE d[i]]

\* lines 118-123: the cashouts list of a tick
Cashouts(d, m) ==
    LET Q(b) == Qualifies(b, m)
        q == SelectSeq(d, Q)
    IN  [i \in DOMAIN q |-> [user_id |-> q[i].user_id, multiplier |-> m,
                             username |-> q[i].username]]

CashEntry(u, by, at, e) == [user_id |-> u, by |-> by, at |-> at, tick |-> e]

\* lines 110-125 (or 110-115 and 132-155): one tick, after the sleep; the
\* clock reads j tenths of a second more than at the last reading (less,
\* for j < 0: time.time() is the wall clock)
Tick(j) ==
    /\ gpc = "sleep_tick"
    /\ elapsed + j <= MaxElapsed
    /\ elapsed + j >= -MaxElapsed
    /\ elapsed' = elapsed + j
    /\ computed' = Multipliers[elapsed + j]
    /\ LET m == Multipliers[elapsed + j]
           cashouts == Cashouts(bets, m)
       IN  IF m >= crash_point
           THEN /\ Crash(connections)
                /\ UNCHANGED <<bets, cashLog>>
           ELSE /\ multiplier' = m
                /\ bets' = AutoCashout(bets, m)
                /\ cashLog' = cashLog \o [i \in DOMAIN cashouts |->
                                 CashEntry(cashouts[i].user_id, "auto", m, elapsed + j)]
                /\ bc' = [bc EXCEPT !["loop"] =
                           broadcast(Msg("tick", round_id, m, cashouts, <<>>), connections)]
                /\ gpc' = IF connections = {} THEN "sleep_tick" ELSE "bc_tick"
                /\ UNCHANGED <<phase, history>>
    /\ UNCHANGED <<crash_point, round_id, connections, hpc, handled, crashLog, used>>
    /\ UNCHANGED seen

\* line 71 of a broadcast of the loop, and the loop up to its next await
LoopReturn ==
    /\ gpc \in LoopBcPcs
    /\ bc["loop"].todo = {}
    /\ LET conns == connections \ bc["loop"].dead
       IN  /\ connections' = conns
           /\ IF gpc \in {"bc_round_start", "bc_tick"} /\ ~(multiplier < crash_point)
              THEN Crash(conns)
              ELSE /\ gpc' = CASE gpc = "bc_betting_start" -> "sleep_betting"
                               [] gpc = "bc_crashed" -> "sleep_crashed"
                               [] OTHER -> "sleep_tick"
                   /\ bc' = [bc EXCEPT !["loop"] = NoBc]
                   /\ UNCHANGED <<phase, multiplier, history>>
    /\ UNCHANGED <<crash_point, round_id, elapsed, bets, hpc, computed, handled,
                   cashLog, crashLog, used>>
    /\ UNCHANGED seen

(***************************************************************************)
(* broadcast: one send (lines 66-70) of the broadcast task t is inside     *)
(***************************************************************************)
InBroadcast(t) == IF t = "loop" THEN gpc \in LoopBcPcs ELSE hpc[t] = "bcast"

\* the websocket is still open on the server side
Open(c) == hpc[c] \in {"send_state", "recv", "send_error_phase", "send_error_amount", "bcast"}

\* one more event of the environment, within the bound of the model
Event == used < MaxEvents /\ used' = used + 1

\* a send to a closed websocket raises; a send to an open one may raise too
SendOutcome(c, ok) == IF ~ok /\ Open(c) THEN Event ELSE used' = used

\* lines 66-70 leaving the loop at the first failed send
BroadcastSendAbort(t, c, ok) ==
    /\ InBroadcast(t)
    /\ c \in bc[t].todo
    /\ ok => Open(c)
    /\ SendOutcome(c, ok)
    /\ bc' = [bc EXCEPT ![t].todo = IF ok THEN @ \ {c} ELSE {},
                        ![t].dead = IF ok THEN @ ELSE @ \cup {c},
                        ![t].got[c] = IF ok THEN @ + 1 ELSE @]
    /\ UNCHANGED <<gameVars, connections, gpc, hpc, computed, handled, cashLog, crashLog>>
    /\ seen' = IF t = "loop" /\ ok THEN Record(seen, c, bc["loop"].msg) ELSE seen

BroadcastSend(t, c, ok) ==
    /\ InBroadcast(t)
    /\ c \in bc[t].todo
    /\ ok => Open(c)
    /\ SendOutcome(c, ok)
    /\ bc' = [bc EXCEPT ![t].todo = @ \ {c},
                        ![t].dead = IF ok THEN @ ELSE @ \cup {c},
                        ![t].got[c] = IF ok THEN @ + 1 ELSE @]
    /\ UNCHANGED <<gameVars, connections, gpc, hpc, computed, handled, cashLog, crashLog>>
    /\ seen' = IF t = "loop" /\ ok THEN Record(seen, c, bc["loop"].msg) ELSE seen

(***************************************************************************)
(* websocket_endpoint, one task per connection c                           *)
(***************************************************************************)
\* lines 169-173: accept, join the live set, start sending the snapshot.
\* A websocket object is new: no broadcast in progress refers to it.
Connect(c) ==
    /\ hpc[c] = "closed"
    /\ c \notin connections
    /\ \A t \in Tasks : c \notin bc[t].start
    /\ Event
    /\ connections' = connections \cup {c}
    /\ hpc' = [hpc EXCEPT ![c] = "send_state"]
    /\ UNCHANGED <<gameVars, gpc, bc, computed, handled, cashLog, crashLog>>
    /\ seen' = Record(seen, c, NoMsg)

\* line 173 completes; it is outside the try, so a failure ends the handler
\* without discarding the connection
SendStateDone(c, ok) ==
    /\ hpc[c] = "send_state"
    /\ SendOutcome(c, ok)
    /\ hpc' = [hpc EXCEPT ![c] = IF ok THEN "recv" ELSE "closed"]
    /\ UNCHANGED <<gameVars, connections, gpc, bc, computed, handled, cashLog, crashLog>>
    /\ UNCHANGED seen

\* lines 239-242: an exception inside the try
Drop(c) ==
    /\ connections' = connections \ {c}
    /\ hpc' = [hpc EXCEPT ![c] = "closed"]

\* lines 184-242 with a client that loses its connection while reading
\* and forgets the bets of the round
RecvDisconnectClearsBets(c) ==
    /\ hpc[c] = "recv"
    /\ Event
    /\ Drop(c)
    /\ handled' = Handled("disconnect", "raised")
    /\ bets' = <<>>
    /\ UNCHANGED <<phase, multiplier, crash_point, round_id, elapsed, history,
                   gpc, bc, computed, cashLog, crashLog>>
    /\ UNCHANGED seen

\* line 184 raises WebSocketDisconnect
RecvDisconnect(c) ==
    /\ hpc[c] = "recv"
    /\ Event
    /\ Drop(c)
    /\ handled' = Handled("disconnect", "raised")
    /\ UNCHANGED <<gameVars, gpc, bc, computed, cashLog, crashLog>>
    /\ UNCHANGED seen

\* line 185 or 187 raises: the text is not JSON, or has no "type"
RecvMalformed(c) ==
    /\ hpc[c] = "recv"
    /\ Event
    /\ Drop(c)
    /\ handled' = Handled("malformed", "raised")
    /\ UNCHANGED <<gameVars, gpc, bc, computed, cashLog, crashLog>>
    /\ UNCHANGED seen

\* lines 187, 222: a type that is neither place_bet nor cashout
RecvOther(c) ==
    /\ hpc[c] = "recv"
    /\ Event
    /\ handled' = Handled("other", "ignored")
    /\ UNCHANGED <<gameVars, connections, gpc, hpc, bc, computed, cashLog, crashLog>>
    /\ UNCHANGED seen

\* line 189 with 1 for the default of a missing amount
AmountArgDefaultOne(p) == IF p.amount.k = "absent" THEN J("num", 1) ELSE p.amount

\* lines 188-191
AmountArg(p) == IF p.amount.k = "absent" THEN J("num", 0) ELSE p.amount

\* lines 207-213
NewBet(p) ==
    [user_id |-> p.user_id, amount |-> AmountArg(p).v,
     auto_cashout |-> IF Truthy(p.auto_cashout) THEN <<p.auto_cashout.v>> ELSE None,
     cashed_out |-> FALSE, cashout_at |-> None, username |-> p.username]

\* line 189: float(amount) raises
PlaceBetRaisesEarly(p) == FloatRaises(AmountArg(p))

\* lines 207-209: float(auto_cashout) raises, or user_id is unhashable
PlaceBetRaisesLate(p) ==
    \/ Truthy(p.auto_cashout) /\ FloatRaises(p.auto_cashout)
    \/ p.user_id = Unhashable

\* lines 187-215: a place_bet message with payload p
RecvPlaceBet(c, p) ==
    /\ hpc[c] = "recv"
    /\ Event
    /\ IF PlaceBetRaisesEarly(p)
       THEN /\ Drop(c)
            /\ handled' = Handled("place_bet", "raised")
            /\ UNCHANGED <<bets, bc>>
       ELSE IF phase # "betting"
       THEN /\ hpc' = [hpc EXCEPT ![c] = "send_error_phase"]
            /\ handled' = Handled("place_bet", "phase_error")
            /\ UNCHANGED <<bets, bc, connections>>
       ELSE IF AmountArg(p).v <= 0
       THEN /\ hpc' = [hpc EXCEPT ![c] = "send_error_amount"]
            /\ handled' = Handled("place_bet", "amount_error")
            /\ UNCHANGED <<bets, bc, connections>>
       ELSE IF PlaceBetRaisesLate(p)
       THEN /\ Drop(c)
            /\ handled' = Handled("place_bet", "raised")
            /\ UNCHANGED <<bets, bc>>
       ELSE /\ handled' = Handled("place_bet", "placed")
            /\ bets' = DictSet(bets, p.user_id, NewBet(p))
            /\ bc' = [bc EXCEPT ![c] =
                       broadcast(Msg("bet_placed", 0, 0,
                                     <<[user_id |-> p.user_id, username |-> p.username,
                                        amount |-> AmountArg(p).v]>>, <<>>), connections)]
            /\ hpc' = [hpc EXCEPT ![c] = IF connections = {} THEN "recv" ELSE "bcast"]
            /\ UNCHANGED connections
    /\ UNCHANGED <<phase, multiplier, crash_point, round_id, elapsed, history,
                   gpc, computed, cashLog, crashLog>>
    /\ UNCHANGED seen

\* lines 194-198 and 201-205: the private error event has been sent, or the
\* send raised
SendErrorDone(c, ok) ==
    /\ hpc[c] \in {"send_error_phase", "send_error_amount"}
    /\ SendOutcome(c, ok)
    /\ IF ok THEN /\ hpc' = [hpc EXCEPT ![c] = "recv"]
                  /\ UNCHANGED connections
             ELSE Drop(c)
    /\ UNCHANGED <<gameVars, gpc, bc, computed, handled, cashLog, crashLog>>
    /\ UNCHANGED seen

\* line 226 missing
CanCashoutAgain(u) == phase = "running" /\ Has(bets, u)

\* lines 224 and 226: the cashout of u goes through
CanCashout(u) == phase = "running" /\ Has(bets, u) /\ ~Get(bets, u).cashed_out

\* why a cashout of u has no effect
WhyIgnored(u) == IF phase # "running" THEN "ignored_phase"
                 ELSE IF ~Has(bets, u) THEN "ignored_no_bet" ELSE "ignored_cashed_out"

\* lines 222-237: a cashout message for user_id u
RecvCashout(c, u) ==
    /\ hpc[c] = "recv"
    /\ Event
    /\ IF phase = "running" /\ u = Unhashable
       THEN /\ Drop(c)
            /\ handled' = Handled("cashout", "raised")
            /\ UNCHANGED <<bets, bc, cashLog>>
       ELSE IF CanCashout(u)
       THEN LET bet == Get(bets, u)
                won == <<[user_id |-> u, username |-> bet.username,
                          multiplier |-> multiplier, winnings |-> bet.amount * multiplier]>>
            IN  /\ bets' = DictSet(bets, u, [bet EXCEPT !.cashed_out = TRUE,
                                                        !.cashout_at = <<multiplier>>])
                /\ cashLog' = Append(cashLog, CashEntry(u, "explicit", multiplier, elapsed))
                /\ bc' = [bc EXCEPT ![c] =
                           broadcast(Msg("cashout", 0, multiplier, won, <<>>), connections)]
                /\ hpc' = [hpc EXCEPT ![c] = IF connections = {} THEN "recv" ELSE "bcast"]
                /\ handled' = Handled("cashout", "cashed")
                /\ UNCHANGED connections
       ELSE /\ handled' = Handled("cashout", WhyIgnored(u))
            /\ UNCHANGED <<bets, bc, cashLog, hpc, connections>>
    /\ UNCHANGED <<phase, multiplier, crash_point, round_id, elapsed, history, gpc,
                   computed, crashLog>>
    /\ UNCHANGED seen

\* line 71 of a broadcast of the handler, which then awaits the next message
HandlerReturn(c) ==
    /\ hpc[c] = "bcast"
    /\ bc[c].todo = {}
    /\ connections' = connections \ bc[c].dead
    /\ hpc' = [hpc EXCEPT ![c] = "recv"]
    /\ bc' = [bc EXCEPT ![c] = NoBc]
    /\ UNCHANGED <<gameVars, gpc, computed, handled, cashLog, crashLog, used>>
    /\ UNCHANGED seen

(***************************************************************************)
(* The program                                                             *)
(***************************************************************************)
Next ==
    \/ \E val \in CrashVals : BettingEntry(val)
    \/ RunningEntry
    \/ \E j \in 1..MaxJump : Tick(j)
    \/ LoopReturn
    \/ \E t \in Tasks, c \in Conns, ok \in BOOLEAN : BroadcastSend(t, c, ok)
    \/ \E c \in Conns : Connect(c)
    \/ \E c \in Conns, ok \in BOOLEAN : SendStateDone(c, ok)
    \/ \E c \in Conns : RecvDisconnect(c)
    \/ \E c \in Conns : RecvMalformed(c)
    \/ \E c \in Conns : RecvOther(c)
    \/ \E c \in Conns, p \in PlaceBetPayloads : RecvPlaceBet(c, p)
    \/ \E c \in Conns, ok \in BOOLEAN : SendErrorDone(c, ok)
    \/ \E c \in Conns, u \in UserIds : RecvCashout(c, u)
    \/ \E c \in Conns : HandlerReturn(c)

Spec == Init /\ [][Next]_vars

(***************************************************************************)
(* The engine alone, for the history ring: no client ever connects, and    *)
(* the digest of round r is fixed by r (crash points 1.0 and 1.02 in turn) *)
(***************************************************************************)
HistVal(r) == IF r % 2 = 1 THEN <<1285, 1285>> ELSE <<0, 0>>

NextHist ==
    \/ BettingEntryUpTo(HistVal(round_id + 1), MaxHistRound)
    \/ RunningEntry
    \/ \E j \in 1..MaxJump : Tick(j)

SpecHist == Init /\ [][NextHist]_vars

(***************************************************************************)
(* Two clients over round 1, to its end: both are connected and have      *)
(* their snapshot, round 1 has opened with crash point 1.02 and its        *)
(* betting window is running.  Bets come over c1, which may leave          *)
(* and come back; cashouts come over c2, which stays unless a send to it   *)
(* fails.                                                                  *)
(***************************************************************************)
Round1Open ==
    /\ phase = "betting"
    /\ multiplier = 100
    /\ crash_point = generate_crash_point(<<1285, 1285>>)
    /\ round_id = 1
    /\ elapsed = 0
    /\ bets = <<>>
    /\ history = <<>>
    /\ connections = Conns
    /\ gpc = "sleep_betting"
    /\ hpc = [c \in Conns |-> "recv"]
    /\ bc = [t \in Tasks |-> NoBc]
    /\ computed = 100
    /\ handled = Handled("none", "none")
    /\ cashLog = <<>>
    /\ crashLog = <<generate_crash_point(<<1285, 1285>>)>>
    /\ used = 0

InitReconnect == Round1Open /\ seen = NotRecording

\* the bets of the two participants
ReconnectPayloads ==
    { Payload("u1", J("num", 10), Absent, "A"),
      Payload("u2", J("num", 10), J("num", 102), "A") }

NextReconnect ==
    \/ RunningEntry
    \/ \E j \in 1..MaxJump : Tick(j)
    \/ LoopReturn
    \/ \E t \in Tasks, c \in Conns, ok \in BOOLEAN : BroadcastSend(t, c, ok)
    \/ Connect("c1")
    \/ \E c \in Conns, ok \in BOOLEAN : SendStateDone(c, ok)
    \/ RecvDisconnect("c1")
    \/ RecvMalformed("c1")
    \/ \E p \in ReconnectPayloads : RecvPlaceBet("c1", p)
    \/ \E c \in Conns, ok \in BOOLEAN : SendErrorDone(c, ok)
    \/ \E u \in UserIds : RecvCashout("c2", u)
    \/ \E c \in Conns : HandlerReturn(c)

SpecReconnect == InitReconnect /\ [][NextReconnect]_vars

(***************************************************************************)
(* Two bettors in round 1: from the same start, place_bet messages come    *)
(* over both connections while the engine runs the round to its end.       *)
(***************************************************************************)
NextTwoBettors ==
    \/ RunningEntry
    \/ \E j \in 1..MaxJump : Tick(j)
    \/ LoopReturn
    \/ \E t \in Tasks, c \in Conns, ok \in BOOLEAN : BroadcastSend(t, c, ok)
    \/ \E c \in Conns, p \in PlaceBetPayloads : RecvPlaceBet(c, p)
    \/ \E c \in Conns, ok \in BOOLEAN : SendErrorDone(c, ok)
    \/ \E c \in Conns : HandlerReturn(c)

SpecTwoBettors == InitReconnect /\ [][NextTwoBettors]_vars

(***************************************************************************)
(* Thresholds: from the same start, clients send bets whose auto_cashout   *)
(* is below 1.0, exactly 1.0 or absent.                                    *)
(***************************************************************************)
ThresholdPayloads ==
    { Payload("u1", J("num", 10), J("num", 50), "A"),
      Payload("u2", J("num", 10), J("num", 100), "A"),
      Payload("u1", J("num", 10), Absent, "A") }

NextThresholds ==
    \/ RunningEntry
    \/ \E j \in 1..MaxJump : Tick(j)
    \/ LoopReturn
    \/ \E t \in Tasks, c \in Conns, ok \in BOOLEAN : BroadcastSend(t, c, ok)
    \/ \E c \in Conns, p \in ThresholdPayloads : RecvPlaceBet(c, p)
    \/ \E c \in Conns, ok \in BOOLEAN : SendErrorDone(c, ok)
    \/ \E c \in Conns : HandlerReturn(c)

SpecThresholds == InitReconnect /\ [][NextThresholds]_vars

(***************************************************************************)
(* What each connection hears of the engine: from the same start, with     *)
(* the deliveries recorded, the engine runs rounds with crash points 1.02  *)
(* and 1.00; c1 bets and cashes out, c2 listens, and any send may fail.    *)
(***************************************************************************)
InitOrdered == Round1Open /\ seen = Recording

OrderedVals == {<<0, 0>>, <<1285, 1285>>}

OrderedPayloads == { Payload("u1", J("num", 10), Absent, "A") }

NextOrdered ==
    \/ \E val \in OrderedVals : BettingEntry(val)
    \/ RunningEntry
    \/ \E j \in 1..MaxJump : Tick(j)
    \/ LoopReturn
    \/ \E t \in Tasks, c \in Conns, ok \in BOOLEAN : BroadcastSend(t, c, ok)
    \/ \E p \in OrderedPayloads : RecvPlaceBet("c1", p)
    \/ \E ok \in BOOLEAN : SendErrorDone("c1", ok)
    \/ RecvCashout("c1", "u1")
    \/ HandlerReturn("c1")

SpecOrdered == InitOrdered /\ [][NextOrdered]_vars

(***************************************************************************)
(* The wall clock: time.time() of line 110 is the system's clock, which    *)
(* can be set back between two ticks, also to before start_time.  From the *)
(* same start the engine runs round 1 while c1 bets.                       *)
(***************************************************************************)
ClockJumps == ((-MaxJump)..MaxJump) \ {0}

NextClock ==
    \/ RunningEntry
    \/ \E j \in ClockJumps : Tick(j)
    \/ LoopReturn
    \/ \E t \in Tasks, c \in Conns, ok \in BOOLEAN : BroadcastSend(t, c, ok)
    \/ \E p \in OrderedPayloads : RecvPlaceBet("c1", p)
    \/ \E ok \in BOOLEAN : SendErrorDone("c1", ok)
    \/ HandlerReturn("c1")

SpecClock == InitReconnect /\ [][NextClock]_vars

(***************************************************************************)
(* Properties                                                              *)
(***************************************************************************)
HasBet(u) == \E i \in DOMAIN bets : bets[i].user_id = u
BetCashed(u) == \E i \in DOMAIN bets : bets[i].user_id = u /\ bets[i].cashed_out
Logged(u) == {k \in DOMAIN cashLog : cashLog[k].user_id = u}
Entries(items, u) == {k \in DOMAIN items : items[k].user_id = u}
TickStep == gpc = "sleep_tick" /\ elapsed' # elapsed

\* C1: a bet is cashed out at most once.  Once cashed_out is true, the bet
\* keeps cashed_out and cashout_at until the ledger is cleared by the next
\* Betting entry (round_id changes), whatever the loop and the handlers do;
\* and a participant's bet is resolved by at most one cashout (auto or
\* explicit), the one whose multiplier it holds.
CashedOutFrozen ==
    \A i \in DOMAIN bets :
        (bets[i].cashed_out /\ round_id' = round_id) =>
            /\ i \in DOMAIN bets'
            /\ bets'[i].user_id = bets[i].user_id
            /\ bets'[i].cashed_out
            /\ bets'[i].cashout_at = bets[i].cashout_at
OneResolution ==
    \A i \in DOMAIN bets :
        LET l == Logged(bets[i].user_id)
        IN  /\ Cardinality(l) <= 1
            /\ bets[i].cashed_out <=> l # {}
            /\ \A k \in l : bets[i].cashout_at = <<cashLog[k].at>>
C1_CashoutAtMostOnce == [][CashedOutFrozen]_vars /\ []OneResolution

\* both paths met: a bet with threshold a was cashed out by command below a,
\* and the loop has since computed a multiplier >= a
C1_Witness ==
    /\ phase = "running"
    /\ \E i \in DOMAIN bets :
        /\ bets[i].cashed_out
        /\ TruthyOpt(bets[i].auto_cashout)
        /\ bets[i].cashout_at[1] < bets[i].auto_cashout[1]
        /\ multiplier >= bets[i].auto_cashout[1]
        /\ \E k \in Logged(bets[i].user_id) : cashLog[k].by = "explicit"

\* C2: a place_bet handled while the phase is not Betting leaves the ledger
\* unchanged and makes the handler send the private error event, for every
\* payload.
C2_PlaceBetOutsideBetting ==
    [][\A c \in Conns, p \in PlaceBetPayloads :
          (RecvPlaceBet(c, p) /\ phase # "betting") =>
              (bets' = bets /\ hpc'[c] = "send_error_phase")]_vars

\* C3: a cashout handled while the phase is not Running, or for a
\* participant with no bet, or for a bet already cashed out, leaves
\* RoundState, the ledger and the history unchanged and starts no broadcast.
C3_InvalidCashoutNoop ==
    [][\A c \in Conns, u \in UserIds :
          (RecvCashout(c, u) /\ (phase # "running" \/ ~HasBet(u) \/ BetCashed(u))) =>
              /\ UNCHANGED <<phase, round_id, multiplier, crash_point, elapsed, bets, history>>
              /\ bc' = bc
              /\ hpc'[c] # "bcast"]_vars

\* a cashout for a bet that was already cashed out has been ignored
C3_Witness == handled = Handled("cashout", "ignored_cashed_out") /\ phase = "running" /\ \E u \in UserIds : BetCashed(u)

\* C4: an invalid cashout (phase not Running, or no bet of the
\* participant) is answered with a private error event, state unchanged.
C4_InvalidCashoutError ==
    [][\A c \in Conns, u \in UserIds :
          (RecvCashout(c, u) /\ (phase # "running" \/ ~HasBet(u))) =>
              /\ hpc'[c] \in {"send_error_phase", "send_error_amount"}
              /\ UNCHANGED gameVars]_vars

\* C5 as stated: once a tick has computed a multiplier >= a, a bet with
\* auto_cashout threshold a is cashed out.
C5_AutoCashoutAtThreshold ==
    \A i \in DOMAIN bets :
        (/\ phase \in {"running", "crashed"}
         /\ elapsed > 0
         /\ TruthyOpt(bets[i].auto_cashout)
         /\ computed >= bets[i].auto_cashout[1]) => bets[i].cashed_out

\* C5 amended: take a bet with threshold a not cashed out yet, and a tick
\* that computes m >= a.  No earlier tick of the round computed a value >= a.
\* If m is below the crash point, the bet becomes cashed out with cashout_at
\* = m, the tick's cashouts list holds the participant exactly once and no
\* other tick's list of the round holds it; if m has reached the crash
\* point the round crashes and the bet stays not cashed out.
C5_AutoCashoutBelowCrash ==
    [][TickStep =>
        \A i \in DOMAIN bets :
            LET b == bets[i]
                m == computed'
            IN  (~b.cashed_out /\ TruthyOpt(b.auto_cashout) /\ m >= b.auto_cashout[1]) =>
                  /\ elapsed > 0 => multiplier < b.auto_cashout[1]
                  /\ IF m < crash_point
                     THEN /\ bets'[i].cashed_out
                          /\ bets'[i].cashout_at = <<m>>
                          /\ Cardinality({k \in DOMAIN cashLog' :
                                /\ cashLog'[k].user_id = b.user_id
                                /\ cashLog'[k].by = "auto"}) = 1
                          /\ \A k \in Logged(b.user_id)' : cashLog'[k].tick = elapsed'
                          /\ connections # {} =>
                                /\ bc'["loop"].msg.type = "tick"
                                /\ Cardinality(Entries(bc'["loop"].msg.items, b.user_id)) = 1
                     ELSE /\ phase' = "crashed"
                          /\ ~bets'[i].cashed_out]_vars

\* a tick event is being sent whose cashouts list names a participant whose
\* bet is now cashed out at its threshold or above
C5_Witness ==
    /\ gpc = "bc_tick"
    /\ \E i \in DOMAIN bets :
        /\ bets[i].cashed_out
        /\ TruthyOpt(bets[i].auto_cashout)
        /\ bets[i].cashout_at[1] >= bets[i].auto_cashout[1]
        /\ Entries(bc["loop"].msg.items, bets[i].user_id) # {}

\* C6: the history holds at most 20 entries, newest first; with N rounds
\* crashed so far it holds the min(N, 20) most recent rounds, each with the
\* crash point computed for that round.
CrashedRounds == IF phase = "crashed" \/ round_id = 0 THEN round_id ELSE round_id - 1
C6_HistoryRing ==
    /\ Len(history) <= HistoryCap
    /\ Len(history) = IF CrashedRounds < HistoryCap THEN CrashedRounds ELSE HistoryCap
    /\ \A k \in DOMAIN history :
        /\ history[k].round_id = CrashedRounds - k + 1
        /\ history[k].crash_point = crashLog[history[k].round_id]
    /\ \A k \in DOMAIN history : k > 1 => history[k].round_id < history[k - 1].round_id

\* more than 20 rounds have crashed
C6_Witness == CrashedRounds > HistoryCap /\ Len(history) = HistoryCap

\* C7: when a broadcast returns, every connection of the live set it started
\* with has the event exactly once unless its send failed, the connections
\* whose send failed are out of the live set and nothing else is, so
\* connections added meanwhile stay, and the calling task goes on.
Isolated(t) ==
    LET b == bc[t]
    IN  /\ \A c \in b.start : b.got[c] = IF c \in b.dead THEN 0 ELSE 1
        /\ \A c \in Conns \ b.start : b.got[c] = 0
        /\ b.dead \cap connections' = {}
        /\ (connections \ b.start) \subseteq connections'
        /\ connections' = connections \ b.dead
        /\ IF t = "loop" THEN gpc' \notin (LoopBcPcs \ {"bc_crashed"}) \cup {"dead"}
                         ELSE hpc'[t] = "recv"
C7_BroadcastIsolation ==
    [][/\ LoopReturn => Isolated("loop")
       /\ \A c \in Conns : HandlerReturn(c) => Isolated(c)]_vars

\* a broadcast over two connections has made all its sends: one failed, the
\* other connection has the event
C7_Witness ==
    \E t \in Tasks :
        /\ InBroadcast(t)
        /\ bc[t].todo = {}
        /\ Cardinality(bc[t].start) >= 2
        /\ bc[t].dead # {}
        /\ \E c \in bc[t].start \ bc[t].dead : bc[t].got[c] = 1

\* C8: the multiplier is 1.0 at Running entry, and every tick computes a
\* value at least the value computed by the tick before; the stored
\* multiplier never decreases while the phase stays Running.
C8_MonotonicMultiplier ==
    [][/\ (gpc = "sleep_betting" /\ gpc' # gpc) => (multiplier' = 100 /\ computed' = 100)
       /\ TickStep => (computed' >= computed /\ computed = multiplier)
       /\ (phase = "running" /\ phase' = "running") => multiplier' >= multiplier]_vars

\* C9: the results of the crashed event list the participants of the
\* ledger, one entry each; an entry is cashed_out with the multiplier of the
\* cashout exactly when the participant was cashed out during the round, and
\* is not cashed_out, with cashout_at null, otherwise.
C9_CrashedResults ==
    gpc = "bc_crashed" =>
        LET items == bc["loop"].msg.items
        IN  /\ bc["loop"].msg.type = "crashed"
            /\ Len(items) = Len(bets)
            /\ \A i \in DOMAIN items : items[i].user_id = bets[i].user_id
            /\ \A i \in DOMAIN items : Cardinality(Entries(items, items[i].user_id)) = 1
            /\ \A i \in DOMAIN items :
                LET l == Logged(items[i].user_id)
                IN  IF l # {}
                    THEN /\ items[i].cashed_out
                         /\ \E k \in l : items[i].cashout_at = <<cashLog[k].at>>
                    ELSE /\ ~items[i].cashed_out
                         /\ items[i].cashout_at = None

\* a crashed event with a winner and a loser
C9_Witness ==
    /\ gpc = "bc_crashed"
    /\ \E i, k \in DOMAIN bc["loop"].msg.items :
        /\ bc["loop"].msg.items[i].cashed_out
        /\ ~bc["loop"].msg.items[k].cashed_out

\* C10: the round engine never stops: game_loop never ends by an exception.
C10_LoopNeverStops == gpc # "dead"

\* C11: when the handler of a connection ends, for whatever reason, the
\* connection is no longer in the live set, and the step leaves the round
\* engine where it was (its position, its broadcast and the game state).
HandlerEnds(c) == hpc[c] # "closed" /\ hpc'[c] = "closed"
C11_HandlerEndRemoves ==
    [][\A c \in Conns :
        HandlerEnds(c) =>
            /\ c \notin connections'
            /\ gpc' = gpc
            /\ bc'["loop"] = bc["loop"]
            /\ UNCHANGED gameVars]_vars

\* C12: connecting, disconnecting and the removal of a connection after a
\* failed send change no round state, ledger or history; a bet stays in the
\* ledger for the rest of its round whatever happens to connections; and a
\* cashout for a live bet goes through on whichever connection it arrives,
\* also when the connection the bet came over is gone.
ConnectionStep(c) ==
    \/ Connect(c)
    \/ \E ok \in BOOLEAN : SendStateDone(c, ok)
    \/ RecvDisconnect(c)
    \/ RecvMalformed(c)
    \/ \E ok \in BOOLEAN : SendErrorDone(c, ok)
    \/ \E t \in Tasks, ok \in BOOLEAN : BroadcastSend(t, c, ok)
    \/ HandlerReturn(c)
C12_ConnectionFrame ==
    [][/\ \A c \in Conns : ConnectionStep(c) =>
              UNCHANGED <<phase, multiplier, crash_point, round_id, bets, history>>
       /\ LoopReturn => UNCHANGED <<crash_point, round_id, bets>>
       /\ round_id' = round_id => Keys(bets) \subseteq Keys(bets')
       /\ \A c \in Conns, u \in UserIds :
              (RecvCashout(c, u) /\ CanCashout(u)) =>
                  \E i \in DOMAIN bets' :
                      /\ bets'[i].user_id = u
                      /\ bets'[i].cashed_out
                      /\ bets'[i].cashout_at = <<multiplier>>]_vars

\* a bet that came over c1 is cashed out over c2 when c1 has left the live
\* set: the cashout event goes to c2 alone
C12_Witness ==
    /\ handled = Handled("cashout", "cashed")
    /\ hpc["c2"] = "bcast"
    /\ bc["c2"].msg.type = "cashout"
    /\ bc["c2"].start = {"c2"}
    /\ hpc["c1"] = "closed"
    /\ \E u \in UserIds : BetCashed(u)

\* C13: the phase moves only waiting -> betting -> running -> crashed ->
\* betting, and never back to waiting; round_id goes up by exactly one at
\* each Betting entry and changes nowhere else, so it counts the Betting
\* entries.  A round whose crash point is 1.00 and that no client watches
\* runs lines 93-155 without a task switch: the step from betting to
\* crashed is that stretch, which sets the phase to running at line 93.
PhaseOrder ==
    \/ phase' = phase
    \/ phase = "waiting" /\ phase' = "betting"
    \/ phase = "betting" /\ phase' = "running"
    \/ phase = "running" /\ phase' = "crashed"
    \/ phase = "crashed" /\ phase' = "betting"
    \/ /\ phase = "betting" /\ phase' = "crashed"
       /\ gpc = "sleep_betting" /\ connections = {} /\ crash_point <= 100
RoundCount ==
    /\ (round_id' # round_id \/ (phase # "betting" /\ phase' = "betting")) =>
           /\ round_id' = round_id + 1
           /\ phase # "betting" /\ phase' = "betting"
           /\ gpc \in {"top", "sleep_crashed"}
    /\ Len(crashLog') # Len(crashLog) =>
           Len(crashLog') = Len(crashLog) + 1 /\ round_id' # round_id
C13_PhaseCycle == [][PhaseOrder /\ RoundCount]_vars /\ [](round_id = Len(crashLog))

\* the second round is running
C13_Witness == round_id = 2 /\ phase = "running" /\ Len(history) = 1

\* C14: the ledger holds at most one bet per participant.  A successful
\* place_bet leaves exactly one bet for its participant, with the amount,
\* auto_cashout and username of that message (a falsy auto_cashout is
\* stored as none) and cashed_out false, whatever bet the participant had
\* before and whichever connection it came over; the bets of the other
\* participants are untouched.
StoredAuto(p) ==
    IF p.auto_cashout.k = "num" /\ p.auto_cashout.v # 0 THEN <<p.auto_cashout.v>> ELSE None
OneBetEach == \A i, k \in DOMAIN bets : bets[i].user_id = bets[k].user_id => i = k
C14_LastWriteWins ==
    /\ [][\A c \in Conns, p \in PlaceBetPayloads :
            (RecvPlaceBet(c, p) /\ handled'.outcome = "placed") =>
                /\ Cardinality(Entries(bets', p.user_id)) = 1
                /\ \A i \in Entries(bets', p.user_id) :
                       /\ bets'[i].amount = p.amount.v
                       /\ bets'[i].auto_cashout = StoredAuto(p)
                       /\ bets'[i].username = p.username
                       /\ ~bets'[i].cashed_out
                       /\ bets'[i].cashout_at = None
                /\ \A i \in DOMAIN bets :
                       bets[i].user_id # p.user_id =>
                           i \in DOMAIN bets' /\ bets'[i] = bets[i]
                /\ Len(bets') = IF Has(bets, p.user_id) THEN Len(bets) ELSE Len(bets) + 1]_vars
    /\ []OneBetEach

\* round 1 is in its Betting phase and both connections are announcing a
\* bet they each took for u1, of different amounts; the ledger holds one
\* bet, and it is one of the two
C14_Witness ==
    /\ phase = "betting" /\ round_id = 1
    /\ hpc["c1"] = "bcast" /\ hpc["c2"] = "bcast"
    /\ bc["c1"].msg.type = "bet_placed" /\ bc["c2"].msg.type = "bet_placed"
    /\ bc["c1"].msg.items[1].user_id = "u1" /\ bc["c2"].msg.items[1].user_id = "u1"
    /\ bc["c1"].msg.items[1].amount # bc["c2"].msg.items[1].amount
    /\ Len(bets) = 1
    /\ bets[1].amount \in {bc["c1"].msg.items[1].amount, bc["c2"].msg.items[1].amount}

\* C15: the ledger is emptied at every Betting entry; its participants
\* change otherwise only by a successful place_bet handled during Betting,
\* which adds its participant; so they are fixed from the Running entry to
\* the next Betting entry, and the round_start event lists the bets of the
\* ledger, one per participant, in order, with the amounts and usernames
\* they hold at the Running entry.
LedgerScope ==
    /\ round_id' # round_id => bets' = <<>>
    /\ (round_id' = round_id /\ Keys(bets') # Keys(bets)) =>
           /\ phase = "betting"
           /\ handled' = Handled("place_bet", "placed")
           /\ \E c \in Conns, p \in PlaceBetPayloads :
                  RecvPlaceBet(c, p) /\ Keys(bets') = Keys(bets) \cup {p.user_id}
    /\ (phase' = "running" /\ phase # "running") =>
           /\ bc'["loop"].msg.type \in {"round_start", "none"}
           /\ connections # {} =>
                  /\ bc'["loop"].msg.type = "round_start"
                  /\ bc'["loop"].msg.round_id = round_id
                  /\ bc'["loop"].msg.items =
                         [i \in DOMAIN bets |-> [user_id |-> bets[i].user_id,
                                                 amount |-> bets[i].amount,
                                                 username |-> bets[i].username]]
RoundStartLists ==
    gpc = "bc_round_start" =>
        LET items == bc["loop"].msg.items
        IN  /\ Len(items) = Len(bets)
            /\ \A i \in DOMAIN items : items[i].user_id = bets[i].user_id
            /\ \A i, k \in DOMAIN items : items[i].user_id = items[k].user_id => i = k
C15_LedgerPerRound == [][LedgerScope]_vars /\ []RoundStartLists

\* the round_start event of a round in which two participants placed a bet
C15_Witness ==
    /\ gpc = "bc_round_start"
    /\ Len(bc["loop"].msg.items) = 2
    /\ Keys(bets) = {"u1", "u2"}

\* C16: a place_bet handled during Betting whose amount is zero, negative
\* or missing is answered by an error event to its sender alone: the
\* handler goes to send it, no broadcast starts, and the ledger, with any
\* bet the participant already has, and the rest of the game state are
\* unchanged; sending the answer changes nothing but the sender's handler
\* (and the live set, if the send fails).
NonPositive(p) == p.amount.k = "absent" \/ (p.amount.k = "num" /\ p.amount.v <= 0)
C16_BadAmountRejected ==
    [][/\ \A c \in Conns, p \in PlaceBetPayloads :
              (RecvPlaceBet(c, p) /\ phase = "betting" /\ NonPositive(p)) =>
                  /\ hpc' = [hpc EXCEPT ![c] = "send_error_amount"]
                  /\ handled' = Handled("place_bet", "amount_error")
                  /\ UNCHANGED <<gameVars, connections, bc, gpc>>
       /\ \A c \in Conns :
              (hpc[c] = "send_error_amount" /\ hpc'[c] # hpc[c]) =>
                  /\ \A d \in Conns \ {c} : hpc'[d] = hpc[d]
                  /\ hpc'[c] \in {"recv", "closed"}
                  /\ connections' = IF hpc'[c] = "recv" THEN connections
                                                       ELSE connections \ {c}
                  /\ UNCHANGED <<gameVars, bc, gpc>>]_vars

\* in the Betting phase both participants have a bet and the message
\* handled last, from one of them, was refused for its amount: the error
\* event is about to be sent
C16_Witness ==
    /\ phase = "betting"
    /\ handled = Handled("place_bet", "amount_error")
    /\ \E c \in Conns : hpc[c] = "send_error_amount"
    /\ Keys(bets) = {"u1", "u2"}

\* C17: every bet in the ledger has a positive amount and an auto_cashout
\* that is absent or at least 1.0.
C17_StoredBetsValid ==
    \A i \in DOMAIN bets :
        /\ bets[i].amount > 0
        /\ bets[i].auto_cashout = None \/ bets[i].auto_cashout[1] >= 100

\* C18: the crash point changes only at a Betting entry, which logs it as
\* the crash point of the new round, and stays the same until the next one;
\* a tick event carries a multiplier strictly below the crash point of its
\* round (and the multiplier the engine holds), and the crashed event
\* carries exactly the crash point.
CrashPointFixed ==
    crash_point' # crash_point =>
        /\ round_id' = round_id + 1
        /\ phase' = "betting"
        /\ gpc \in {"top", "sleep_crashed"}
EventsAgainstCrashPoint ==
    /\ (round_id >= 1 /\ gpc # "dead") => crashLog[round_id] = crash_point
    /\ gpc = "bc_tick" =>
           /\ bc["loop"].msg.type = "tick"
           /\ bc["loop"].msg.multiplier < crash_point
           /\ bc["loop"].msg.multiplier = multiplier
           /\ phase = "running"
    /\ gpc = "bc_crashed" =>
           /\ bc["loop"].msg.type = "crashed"
           /\ bc["loop"].msg.multiplier = crash_point
           /\ bc["loop"].msg.round_id = round_id
           /\ phase = "crashed"
C18_CrashPointAndEvents == [][CrashPointFixed]_vars /\ []EventsAgainstCrashPoint

\* a tick event of 1.01 in a round that crashes at 1.02
C18_Witness ==
    /\ gpc = "bc_tick"
    /\ bc["loop"].msg.multiplier = 101
    /\ crash_point = 102
    /\ bc["loop"].todo # {}

\* C19: no bet is won at or after the crash: every cashed-out bet has a
\* cashout_at of at least 1.00 and strictly below the crash point of its
\* round.
C19_CashoutBelowCrash ==
    \A i \in DOMAIN bets :
        bets[i].cashed_out =>
            /\ bets[i].cashout_at # None
            /\ bets[i].cashout_at[1] >= 100
            /\ bets[i].cashout_at[1] < crash_point

\* C20: a connection hears the events of the engine in the order the
\* engine emits them.  Each event of the engine delivered to a connection
\* comes after the one delivered to it before: a later round, or the same
\* round and a later kind (betting_start, round_start, tick, crashed), or
\* both ticks of the same round with a multiplier that is not smaller;
\* whatever broadcasts of the handlers are under way.
Stage(type) ==
    CASE type = "betting_start" -> 1
      [] type = "round_start" -> 2
      [] type = "tick" -> 3
      [] type = "crashed" -> 4
      [] OTHER -> 0
Follows(a, b) ==
    \/ a.type = "none"
    \/ a.round_id < b.round_id
    \/ a.round_id = b.round_id /\ Stage(a.type) < Stage(b.type)
    \/ /\ a.round_id = b.round_id
       /\ a.type = "tick" /\ b.type = "tick"
       /\ a.multiplier <= b.multiplier
====
